---- MODULE Spec2Model ----
(***************************************************************************)
(* Model of progress.py: the Progress reporter, its optional background    *)
(* refresh thread (_update_loop) and the strings it writes to stderr.      *)
(*                                                                         *)
(* The clock (now) counts milliseconds.  A duration, and _start, which     *)
(* quiet mode pushes 2**32 seconds ahead, is kept as [h, ms]: hours and    *)
(* the milliseconds left over, 0 <= ms < 1 hour, which is divmod by 3600   *)
(* seconds and keeps every number within TLC's integers.                   *)
(* Strings are TLA+ strings, so lengths, truncation and concatenation are  *)
(* those of the rendered text.                                             *)
(* An Optional[str] is a sequence of at most one string: None is << >>.    *)
(*                                                                         *)
(* A public method runs as a sequence of steps of its thread: the points   *)
(* where it reads or writes a field that the other thread also accesses    *)
(* are separate steps, because update() takes no lock.                     *)
(***************************************************************************)
EXTENDS Integers, Sequences, FiniteSets, TLC

VARIABLES
    args,           \* the constructor's arguments
    _TTY,           \* sys.stderr.isatty(), read once at import
    trace,          \* what IsTraceToStderr() answered the last step (FALSE
                    \* if the step did not ask)
    now,            \* time.time(), in ms
    _done, _start, _show, _show_jobs, _active, _last_msg,
    _update_event,  \* the Event's flag
    pc,             \* pc[t]: where thread t stands
    op,             \* the public method the caller is in
    inc, msg, tmp,  \* update()'s arguments and its loaded _done, per thread
    deadline,       \* when the background thread's wait(timeout=1) times out
    out,            \* the string the last step wrote to stderr ("" if none)
    wrote,          \* which method the last step wrote from: update, end, none
    obs,            \* what else the last step did: whose suppression check it
                    \* ran (asked, by), the string it passed to _write (line)
                    \* and the width os.get_terminal_size gave it (cols)
    ncalls,         \* public calls made by the caller so far
    sum_inc,        \* sum of the increments the caller has passed
    neg_inc,        \* whether the caller has passed a negative increment
    starts_after_stop,  \* update(inc=0) calls the thread began after end()
    given,          \* the message the caller supplied most recently
    jobs_net,       \* start calls minus finish calls made by the caller
    summary_written,    \* whether end() has written its summary line
    fn              \* the last direct call of a formatting function

vars == <<args, _TTY, trace, now, _done, _start, _show, _show_jobs, _active,
          _last_msg, _update_event, pc, op, inc, msg, tmp, deadline, out,
          wrote, obs, ncalls, sum_inc, neg_inc, starts_after_stop, given,
          jobs_net, summary_written, fn>>

-----------------------------------------------------------------------------
(* Bounds of the model *)

\* calls of start, finish and update the caller makes before end():
\* when no update thread runs, and when one does
MaxCalls == 5
MaxCallsThreaded == 1
\* steps of the clock, and the length of one
MaxTicks == 2
TickMs == 500

Totals == {-1, 0, 3, 4}
\* the (inc, msg) pairs the caller passes to update()
UpdateArgs == {<<1, << >> >>, <<-1, <<"m">> >>}
Names == {"a"}
Cols == {32, 80}

-----------------------------------------------------------------------------
(* Constants of the program *)

ShowDelayMs == 500
WaitTimeoutMs == 1000
HourMs == 3600000

\* divmod(h hours + ms milliseconds, 1 hour)
Norm(h, ms) == [h |-> h + (ms \div HourMs), ms |-> ms % HourMs]

\* 2**32 seconds, as 2**16 * (2**16 seconds)
QuietShift ==
    LET w == 2 ^ 16
        lo == w * (w % 3600)
    IN [h |-> w * (w \div 3600) + (lo \div 3600), ms |-> (lo % 3600) * 1000]

\* One-character stand-in for U+001B, which a TLA+ string cannot denote.
ESC == "^"
CSI_ERASE_LINE_AFTER == ESC \o "[K"

None == << >>
Some(s) == << s >>

Threads == {"caller", "bg"}

\* nothing observed in a step; no formatting function called yet
NoObs == [asked |-> "none", by |-> "none", line |-> "", cols |-> 0]
NoCall == [op |-> "none", arg |-> 0, res |-> ""]

-----------------------------------------------------------------------------
(* Formatting *)

RECURSIVE PadLeft(_, _, _)
PadLeft(s, w, c) == IF Len(s) >= w THEN s ELSE PadLeft(c \o s, w, c)

\* "%Nd" % x
FmtD(x, w) == PadLeft(ToString(x), w, " ")

\* f"{x:>02d}"
Fmt02d(x) == PadLeft(ToString(x), 2, "0")

\* int(a / b) for b > 0: "%d" applied to the float a / b drops the fraction
TruncDiv(a, b) == IF a >= 0 THEN a \div b ELSE -((-a) \div b)

\* convert_to_hms: <<hours, mins, secs in ms>>; total is [h, ms], which is
\* "hours, rem = divmod(total, 3600)" already
convert_to_hms(total) == <<total.h, total.ms \div 60000, total.ms % 60000>>

\* f"{secs:.3f}" of a whole number of milliseconds
Fmt3f(secs_ms) ==
    ToString(secs_ms \div 1000) \o "." \o PadLeft(ToString(secs_ms % 1000), 3, "0")

\* faulty variant: a zero minutes field is kept when hours are rendered
duration_str_keeps_minutes(total) ==
    LET hms == convert_to_hms(total)
    IN (IF hms[1] # 0 THEN ToString(hms[1]) \o "h" ELSE "")
       \o (IF hms[1] # 0 \/ hms[2] # 0 THEN ToString(hms[2]) \o "m" ELSE "")
       \o Fmt3f(hms[3]) \o "s"

duration_str(total) ==
    LET hms == convert_to_hms(total)
    IN (IF hms[1] # 0 THEN ToString(hms[1]) \o "h" ELSE "")
       \o (IF hms[2] # 0 THEN ToString(hms[2]) \o "m" ELSE "")
       \o Fmt3f(hms[3]) \o "s"

elapsed_str(total) ==
    LET hms == convert_to_hms(total)
        pre == IF hms[1] # 0
               THEN ToString(hms[1]) \o ":" \o Fmt02d(hms[2]) \o ":"
               ELSE ToString(hms[2]) \o ":"
    IN pre \o Fmt02d(hms[3] \div 1000)

jobs_str(total) == ToString(total) \o " job" \o (IF total > 1 THEN "s" ELSE "")

\* "%s" % m
StrOf(m) == IF m = None THEN "None" ELSE m[1]

-----------------------------------------------------------------------------
(* The fields set once by __init__ *)

_title == args.title
_total == args.total
_units == args.units
_show_elapsed == args.show_elapsed
_elide == args.elide /\ _TTY

\* faulty variant: quiet mode forgets "self._start += 2**32"
StartTimeNoShift(t0, quiet) == Norm(0, t0)

\* self._start after __init__, for a reporter constructed at time t0
StartTime(t0, quiet) ==
    IF quiet THEN Norm(QuietShift.h, QuietShift.ms + t0) ELSE Norm(0, t0)

\* "time.time() - self._start" at time t
Elapsed(t, start) == Norm(-start.h, t - start.ms)

\* self._show after __init__
InitShow(delay, quiet) == IF quiet THEN FALSE ELSE ~delay

\* whether __init__ starts the update thread
ThreadStarted(quiet, show_elapsed) == ~quiet /\ show_elapsed

Init ==
    /\ args \in [title : {"Fetching"}, total : Totals, units : {" objects"},
                 delay : BOOLEAN, quiet : BOOLEAN, show_elapsed : BOOLEAN,
                 elide : BOOLEAN]
    /\ _TTY \in BOOLEAN
    /\ trace = FALSE
    /\ now = 0
    /\ _done = 0
    /\ _start = StartTime(0, args.quiet)
    /\ _show = InitShow(args.delay, args.quiet)
    /\ _show_jobs = FALSE
    /\ _active = 0
    /\ _last_msg = None
    /\ _update_event = FALSE
    /\ pc = [t \in Threads |->
                IF t = "caller" THEN "idle"
                ELSE IF ThreadStarted(args.quiet, args.show_elapsed)
                     THEN "loop" ELSE "none"]
    /\ op = "none"
    /\ inc = [t \in Threads |-> 0]
    /\ msg = [t \in Threads |-> None]
    /\ tmp = [t \in Threads |-> 0]
    /\ deadline = 0
    /\ out = ""
    /\ wrote = "none"
    /\ ncalls = 0
    /\ sum_inc = 0
    /\ neg_inc = FALSE
    /\ starts_after_stop = 0
    /\ obs = NoObs
    /\ given = None
    /\ jobs_net = 0
    /\ summary_written = FALSE
    /\ fn = NoCall

-----------------------------------------------------------------------------
(* Rendering *)

\* faulty variant: a line of exactly col characters is truncated too
WriteCutsAtCol(s, col) ==
    LET s1 == "\r" \o s
    IN IF _elide /\ Len(s1) >= col THEN SubSeq(s1, 1, col - 1) \o ".." ELSE s1

\* _write: the string that reaches stderr, on a terminal col columns wide
Write(s, col) ==
    LET s1 == "\r" \o s
    IN IF _elide /\ Len(s1) > col THEN SubSeq(s1, 1, col - 1) \o ".." ELSE s1

\* faulty variant: the percentage is computed with floor division
PercentFloor(done, total) == (100 * done) \div total

\* the percent field's number: (100 * done) / total under "%d"
Percent(done, total) == TruncDiv(100 * done, total)

\* the string update() composes, elapsed ms after _start, with message m
ProgressText(elapsed, m) ==
    IF _total <= 0
    THEN _title \o ": " \o ToString(_done) \o "," \o CSI_ERASE_LINE_AFTER
    ELSE LET jobs == IF _show_jobs THEN "[" \o jobs_str(_active) \o "] " ELSE ""
             el == IF _show_elapsed
                   THEN " " \o elapsed_str(elapsed) \o " |" ELSE ""
         IN _title \o ": " \o FmtD(Percent(_done, _total), 2) \o "% " \o jobs
            \o "(" \o ToString(_done) \o _units \o "/" \o ToString(_total)
            \o _units \o ")" \o el \o " " \o StrOf(m) \o CSI_ERASE_LINE_AFTER

\* the string end() composes, elapsed ms after _start
SummaryText(elapsed) ==
    IF _total <= 0
    THEN _title \o ": " \o ToString(_done) \o ", done in "
         \o duration_str(elapsed) \o CSI_ERASE_LINE_AFTER \o "\n"
    ELSE _title \o ": " \o FmtD(Percent(_done, _total), 3) \o "% ("
         \o ToString(_done) \o _units \o "/" \o ToString(_total) \o _units
         \o "), done in " \o duration_str(elapsed) \o CSI_ERASE_LINE_AFTER
         \o "\n"

\* faulty variant: the check forgets IsTraceToStderr()
SuppressedIgnoresTrace(tr) == ~_TTY

\* "not _TTY or IsTraceToStderr()", IsTraceToStderr() answering tr
Suppressed(tr) == ~_TTY \/ tr

\* "0.5 <= elapsed_sec"
DelayOver(elapsed) ==
    elapsed.h > 0 \/ (elapsed.h = 0 /\ ShowDelayMs <= elapsed.ms)

\* faulty variant: the latch is set before the terminal and trace check
ShowAfterUpdateUnchecked(show, tr, elapsed) == show \/ DelayOver(elapsed)

\* self._show when update() returns, IsTraceToStderr() having answered tr
ShowAfterUpdate(show, tr, elapsed) ==
    IF Suppressed(tr) THEN show ELSE show \/ DelayOver(elapsed)

\* faulty variant: end() applies the 0.5s delay itself
EndWritesAfterDelay(show, tr) ==
    ~Suppressed(tr) /\ (show \/ DelayOver(Elapsed(now, _start)))

\* whether end() writes its summary, IsTraceToStderr() having answered tr
EndWrites(show, tr) == ~(Suppressed(tr) \/ ~show)

\* a step that writes nothing and does not ask IsTraceToStderr()
NoWrite == out' = "" /\ wrote' = "none" /\ trace' = FALSE /\ obs' = NoObs

-----------------------------------------------------------------------------
(* update(), step by step, run by thread t *)

\* where a thread goes after "self._done += inc"
AfterStoreDone(m) == IF m = None THEN "load_msg" ELSE "store_msg"

\* where a thread goes when update() returns
AfterUpdate(t) ==
    IF t = "bg" THEN "wait"
    ELSE IF op = "finish" THEN "finish_active" ELSE "idle"

\* the value "self._done += inc" stores, having loaded d
DoneStored(d, i) == d + i

\* "self._done += inc": the store
UpdateStoreDone(t) ==
    /\ pc[t] = "store_done"
    /\ _done' = DoneStored(tmp[t], inc[t])
    /\ pc' = [pc EXCEPT ![t] = AfterStoreDone(msg[t])]
    /\ inc' = [inc EXCEPT ![t] = 0]
    /\ tmp' = [tmp EXCEPT ![t] = 0]
    /\ NoWrite
    /\ UNCHANGED <<args, _TTY, now, _start, _show, _show_jobs, _active,
                   _last_msg, _update_event, op, msg, deadline, ncalls,
                   sum_inc, neg_inc, starts_after_stop,
                   given, jobs_net, summary_written, fn>>

\* "if msg is None: msg = self._last_msg"
UpdateLoadMsg(t) ==
    /\ pc[t] = "load_msg"
    /\ msg' = [msg EXCEPT ![t] = _last_msg]
    /\ pc' = [pc EXCEPT ![t] = "store_msg"]
    /\ NoWrite
    /\ UNCHANGED <<args, _TTY, now, _done, _start, _show, _show_jobs,
                   _active, _last_msg, _update_event, op, inc, tmp, deadline,
                   ncalls, sum_inc, neg_inc, starts_after_stop,
                   given, jobs_net, summary_written, fn>>

\* "self._last_msg = msg"
UpdateStoreMsg(t) ==
    /\ pc[t] = "store_msg"
    /\ _last_msg' = msg[t]
    /\ pc' = [pc EXCEPT ![t] = "render"]
    /\ NoWrite
    /\ UNCHANGED <<args, _TTY, now, _done, _start, _show, _show_jobs,
                   _active, _update_event, op, inc, msg, tmp, deadline,
                   ncalls, sum_inc, neg_inc, starts_after_stop,
                   given, jobs_net, summary_written, fn>>

\* the rest of update(): the suppression checks, the latch and the write
UpdateRender(t) ==
    /\ pc[t] = "render"
    /\ \E tr \in BOOLEAN :
          LET elapsed == Elapsed(now, _start)
              visible == ShowAfterUpdate(_show, tr, elapsed)
              writes == ~Suppressed(tr) /\ visible
          IN /\ trace' = tr
             /\ _show' = visible
             /\ \E col \in Cols :
                   LET s == ProgressText(elapsed, msg[t])
                   IN /\ out' = IF writes THEN Write(s, col) ELSE ""
                      /\ obs' = [asked |-> "update", by |-> t,
                                 line |-> IF writes THEN s ELSE "",
                                 cols |-> IF writes /\ _elide THEN col ELSE 0]
             /\ wrote' = IF writes THEN "update" ELSE "none"
    /\ pc' = [pc EXCEPT ![t] = AfterUpdate(t)]
    /\ msg' = [msg EXCEPT ![t] = None]
    /\ deadline' = IF t = "bg" THEN now + WaitTimeoutMs ELSE deadline
    /\ op' = IF t = "caller" /\ op # "finish" THEN "none" ELSE op
    /\ UNCHANGED <<args, _TTY, now, _done, _start, _show_jobs, _active,
                   _last_msg, _update_event, inc, tmp, ncalls, sum_inc,
                   neg_inc, starts_after_stop,
                   given, jobs_net, summary_written, fn>>

-----------------------------------------------------------------------------
(* The caller's public calls *)

\* the caller enters update(i, m): loads self._done
EnterUpdate(i, m) ==
    /\ inc' = [inc EXCEPT !["caller"] = i]
    /\ msg' = [msg EXCEPT !["caller"] = m]
    /\ tmp' = [tmp EXCEPT !["caller"] = _done]
    /\ pc' = [pc EXCEPT !["caller"] = "store_done"]

CanCall ==
    /\ pc["caller"] = "idle"
    /\ ncalls < (IF pc["bg"] = "none" THEN MaxCalls ELSE MaxCallsThreaded)

\* update(inc=i, msg=m) called by the caller
CallUpdate ==
    /\ CanCall
    /\ \E a \in UpdateArgs :
          /\ EnterUpdate(a[1], a[2])
          /\ sum_inc' = sum_inc + a[1]
          /\ neg_inc' = (neg_inc \/ a[1] < 0)
          /\ given' = IF a[2] = None THEN given ELSE a[2]
    /\ op' = "update"
    /\ ncalls' = ncalls + 1
    /\ NoWrite
    /\ UNCHANGED <<args, _TTY, now, _done, _start, _show, _show_jobs,
                   _active, _last_msg, _update_event, deadline,
                   starts_after_stop, jobs_net, summary_written, fn>>

\* start(name): "self._active += 1"
CallStart ==
    /\ CanCall
    /\ \E name \in Names :
          /\ msg' = [msg EXCEPT !["caller"] = Some("started " \o name)]
          /\ given' = Some("started " \o name)
    /\ _active' = _active + 1
    /\ jobs_net' = jobs_net + 1
    /\ pc' = [pc EXCEPT !["caller"] = "start_show_jobs"]
    /\ op' = "start"
    /\ ncalls' = ncalls + 1
    /\ NoWrite
    /\ UNCHANGED <<args, _TTY, now, _done, _start, _show, _show_jobs,
                   _last_msg, _update_event, inc, tmp, deadline, sum_inc,
                   neg_inc, starts_after_stop, summary_written, fn>>

\* faulty variant: start() assigns the comparison instead of latching it
ShowJobsNotLatched(show_jobs, active) == active > 1

\* the value start() leaves in self._show_jobs
ShowJobsAfterStart(show_jobs, active) ==
    IF ~show_jobs THEN active > 1 ELSE show_jobs

\* start(name): the _show_jobs latch, then the call of update(inc=0, msg)
StartShowJobs ==
    /\ pc["caller"] = "start_show_jobs"
    /\ _show_jobs' = ShowJobsAfterStart(_show_jobs, _active)
    /\ EnterUpdate(0, msg["caller"])
    /\ NoWrite
    /\ UNCHANGED <<args, _TTY, now, _done, _start, _show, _active,
                   _last_msg, _update_event, op, deadline, ncalls, sum_inc,
                   neg_inc, starts_after_stop,
                   given, jobs_net, summary_written, fn>>

\* finish(name): the call of update(msg="finished " + name)
CallFinish ==
    /\ CanCall
    /\ \E name \in Names :
          /\ EnterUpdate(1, Some("finished " \o name))
          /\ given' = Some("finished " \o name)
    /\ sum_inc' = sum_inc + 1
    /\ jobs_net' = jobs_net - 1
    /\ op' = "finish"
    /\ ncalls' = ncalls + 1
    /\ NoWrite
    /\ UNCHANGED <<args, _TTY, now, _done, _start, _show, _show_jobs,
                   _active, _last_msg, _update_event, deadline, neg_inc,
                   starts_after_stop, summary_written, fn>>

\* faulty variant: finish() refuses to go below zero
ActiveAfterFinishClamped(active) == IF active > 0 THEN active - 1 ELSE 0

\* the value finish() leaves in self._active
ActiveAfterFinish(active) == active - 1

\* finish(name): "self._active -= 1"
FinishActive ==
    /\ pc["caller"] = "finish_active"
    /\ _active' = ActiveAfterFinish(_active)
    /\ pc' = [pc EXCEPT !["caller"] = "idle"]
    /\ op' = "none"
    /\ NoWrite
    /\ UNCHANGED <<args, _TTY, now, _done, _start, _show, _show_jobs,
                   _last_msg, _update_event, inc, msg, tmp, deadline, ncalls,
                   sum_inc, neg_inc, starts_after_stop,
                   given, jobs_net, summary_written, fn>>

\* end(): "self._update_event.set()".  It is the caller's last call.
CallEnd ==
    /\ pc["caller"] = "idle"
    /\ _update_event' = TRUE
    /\ pc' = [pc EXCEPT !["caller"] = "end_write"]
    /\ op' = "end"
    /\ NoWrite
    /\ UNCHANGED <<args, _TTY, now, _done, _start, _show, _show_jobs,
                   _active, _last_msg, inc, msg, tmp, deadline, ncalls,
                   sum_inc, neg_inc, starts_after_stop,
                   given, jobs_net, summary_written, fn>>

\* the rest of end(): the suppression check and the summary line
EndWrite ==
    /\ pc["caller"] = "end_write"
    /\ \E tr \in BOOLEAN :
          LET writes == EndWrites(_show, tr)
          IN /\ trace' = tr
             /\ \E col \in Cols :
                   LET s == SummaryText(Elapsed(now, _start))
                   IN /\ out' = IF writes THEN Write(s, col) ELSE ""
                      /\ obs' = [asked |-> "end", by |-> "caller",
                                 line |-> IF writes THEN s ELSE "",
                                 cols |-> IF writes /\ _elide THEN col ELSE 0]
             /\ wrote' = IF writes THEN "end" ELSE "none"
             /\ summary_written' = writes
    /\ pc' = [pc EXCEPT !["caller"] = "ended"]
    /\ op' = "none"
    /\ UNCHANGED <<args, _TTY, now, _done, _start, _show, _show_jobs,
                   _active, _last_msg, _update_event, inc, msg, tmp, deadline,
                   ncalls, sum_inc, neg_inc, starts_after_stop,
                   given, jobs_net, fn>>

-----------------------------------------------------------------------------
(* The background thread: _update_loop *)

\* "self.update(inc=0)": the thread enters update and loads self._done
BgLoop ==
    /\ pc["bg"] = "loop"
    /\ inc' = [inc EXCEPT !["bg"] = 0]
    /\ msg' = [msg EXCEPT !["bg"] = None]
    /\ tmp' = [tmp EXCEPT !["bg"] = _done]
    /\ pc' = [pc EXCEPT !["bg"] = "store_done"]
    /\ starts_after_stop' = starts_after_stop + (IF _update_event THEN 1 ELSE 0)
    /\ NoWrite
    /\ UNCHANGED <<args, _TTY, now, _done, _start, _show, _show_jobs,
                   _active, _last_msg, _update_event, op, deadline, ncalls,
                   sum_inc, neg_inc,
                   given, jobs_net, summary_written, fn>>

\* faulty variant: the wait looks at the flag only when its timeout is over
WaitReturnsTrueAtTimeout(flag, t, d) == flag /\ t >= d

\* faulty variant: the loop also leaves when the wait times out
WaitReturnsTrueOnTimeout(flag, t, d) == flag \/ t >= d

\* whether wait(timeout=1) returns, and what, at time t with the flag as given
WaitReturnsTrue(flag, t, d) == flag
WaitReturnsFalse(flag, t, d) == ~flag /\ t >= d

\* "if self._update_event.wait(timeout=1): return"
BgWaitSet ==
    /\ pc["bg"] = "wait"
    /\ WaitReturnsTrue(_update_event, now, deadline)
    /\ pc' = [pc EXCEPT !["bg"] = "exited"]
    /\ deadline' = 0
    /\ NoWrite
    /\ UNCHANGED <<args, _TTY, now, _done, _start, _show, _show_jobs,
                   _active, _last_msg, _update_event, op, inc, msg, tmp,
                   ncalls, sum_inc, neg_inc, starts_after_stop,
                   given, jobs_net, summary_written, fn>>

\* wait(timeout=1) timed out: the loop goes round
BgWaitTimeout ==
    /\ pc["bg"] = "wait"
    /\ WaitReturnsFalse(_update_event, now, deadline)
    /\ pc' = [pc EXCEPT !["bg"] = "loop"]
    /\ deadline' = 0
    /\ NoWrite
    /\ UNCHANGED <<args, _TTY, now, _done, _start, _show, _show_jobs,
                   _active, _last_msg, _update_event, op, inc, msg, tmp,
                   ncalls, sum_inc, neg_inc, starts_after_stop,
                   given, jobs_net, summary_written, fn>>

-----------------------------------------------------------------------------
(* The environment *)

\* the clock advances
Tick ==
    /\ now + TickMs <= MaxTicks * TickMs
    /\ now' = now + TickMs
    /\ NoWrite
    /\ UNCHANGED <<args, _TTY, _done, _start, _show, _show_jobs,
                   _active, _last_msg, _update_event, pc, op, inc, msg, tmp,
                   deadline, ncalls, sum_inc, neg_inc, starts_after_stop,
                   given, jobs_net, summary_written, fn>>

-----------------------------------------------------------------------------

UpdateStep(t) ==
    \/ UpdateStoreDone(t)
    \/ UpdateLoadMsg(t)
    \/ UpdateStoreMsg(t)
    \/ UpdateRender(t)

CallerNext ==
    \/ CallUpdate
    \/ CallStart
    \/ StartShowJobs
    \/ CallFinish
    \/ FinishActive
    \/ CallEnd
    \/ EndWrite
    \/ UpdateStep("caller")

BgNext ==
    \/ BgLoop
    \/ BgWaitSet
    \/ BgWaitTimeout
    \/ UpdateStep("bg")

Next == CallerNext \/ BgNext \/ Tick

Spec == Init /\ [][Next]_vars

\* a reporter whose thread was started, the scheduler running the thread
\* whenever it can take a step
ThreadInit == Init /\ ThreadStarted(args.quiet, args.show_elapsed)

ThreadSpec == ThreadInit /\ [][Next]_vars

FairSpec == ThreadSpec /\ WF_vars(BgNext)

-----------------------------------------------------------------------------
(* The formatting functions called directly, on periods given in ms *)

MinuteMs == 60000

Durations ==
    {h * HourMs + m * MinuteMs + ms :
        h \in 0..1, m \in {0, 5, 59}, ms \in {0, 340, 2500, 12000, 59999}}

Jobs == -1..3

\* everything but fn: the reporter and its observers
reporter == <<args, _TTY, trace, now, _done, _start, _show, _show_jobs,
              _active, _last_msg, _update_event, pc, op, inc, msg, tmp,
              deadline, out, wrote, obs, ncalls, sum_inc, neg_inc,
              starts_after_stop, given, jobs_net, summary_written>>

\* duration_str(d / 1000)
CallDurationStr ==
    /\ \E d \in Durations :
          fn' = [op |-> "duration_str", arg |-> d,
                 res |-> duration_str(Norm(0, d))]
    /\ UNCHANGED reporter

\* elapsed_str(d / 1000)
CallElapsedStr ==
    /\ \E d \in Durations :
          fn' = [op |-> "elapsed_str", arg |-> d,
                 res |-> elapsed_str(Norm(0, d))]
    /\ UNCHANGED reporter

\* jobs_str(n)
CallJobsStr ==
    /\ \E n \in Jobs :
          fn' = [op |-> "jobs_str", arg |-> n, res |-> jobs_str(n)]
    /\ UNCHANGED reporter

FnNext == CallDurationStr \/ CallElapsedStr \/ CallJobsStr

FnSpec == Init /\ [][FnNext]_vars

-----------------------------------------------------------------------------
(* Helpers of the properties *)

HasPrefix(s, p) == Len(s) >= Len(p) /\ SubSeq(s, 1, Len(p)) = p
HasSuffix(s, p) == Len(s) >= Len(p) /\ SubSeq(s, Len(s) - Len(p) + 1, Len(s)) = p
Contains(s, p) == \E i \in 1..(Len(s) - Len(p) + 1) : SubSeq(s, i, i + Len(p) - 1) = p

\* no thread is inside update()
NoUpdateRunning ==
    \A t \in Threads : pc[t] \notin {"store_done", "load_msg", "store_msg", "render"}

\* at least 0.5s lie between _start and now, computed on the clock itself
HalfSecondElapsed == _start.h = 0 /\ now - _start.ms >= 500

-----------------------------------------------------------------------------
(* C1: a reporter constructed with quiet=True never writes to the terminal, *)
(* whatever delay, show_elapsed, the calls made and the time elapsed.       *)
C1_QuietNeverWrites == args.quiet => (wrote = "none" /\ out = "")

\* quiet with delay=False on a terminal, calls made, end() returned, 0.5s over
C1_Witness ==
    /\ args.quiet /\ ~args.delay /\ args.show_elapsed /\ _TTY
    /\ pc["caller"] = "ended" /\ ncalls >= 3 /\ ~trace
    /\ now >= 1000

(* C2: update and end write only on a terminal, with tracing inactive and   *)
(* _show true; and an update that finds _show false less than 0.5s after    *)
(* _start writes nothing.                                                   *)
C2_WritesOnlyWhenShown ==
    /\ [](wrote # "none" => (_TTY /\ ~trace /\ _show))
    /\ [][(~_show /\ ~HalfSecondElapsed) => wrote' = "none"]_vars

\* end() wrote its summary for a delayed reporter that an update made visible
C2_Witness == wrote = "end" /\ args.delay /\ ncalls >= 1

(* C3: _show is a one-way latch: it never goes from true to false; it goes  *)
(* from false to true only in update's rendering step, on a terminal, with  *)
(* tracing inactive and at least 0.5s after _start; with delay=False and    *)
(* quiet=False it is true from construction on.                             *)
C3_ShowLatch ==
    /\ [][_show => _show']_vars
    /\ [][(~_show /\ _show') =>
            /\ \E t \in Threads : pc[t] = "render" /\ pc'[t] # "render"
            /\ HalfSecondElapsed /\ _TTY /\ ~trace']_vars
    /\ []((~args.delay /\ ~args.quiet) => _show)

\* a delayed reporter that an update has made visible, later calls made
C3_Witness ==
    /\ args.delay /\ ~args.quiet /\ _show
    /\ pc["caller"] = "ended" /\ ncalls >= 2

(* C4: with no negative increment passed, _done never decreases and, when   *)
(* no update() is running, equals the sum of the caller's increments, also  *)
(* while the update thread runs.                                            *)
C4_DoneIsSumOfIncrements ==
    (~neg_inc /\ NoUpdateRunning) => _done = sum_inc

(* C5: the update thread exists exactly when the reporter was constructed   *)
(* with show_elapsed=True and quiet=False, from construction on, and it     *)
(* leaves its loop only after end() has set the event.                      *)
C5_OneThreadUntilEnd ==
    /\ (pc["bg"] # "none") <=> (args.show_elapsed /\ ~args.quiet)
    /\ pc["bg"] = "exited" => _update_event

\* the thread went round its loop at least once more and left after end()
C5_Witness == pc["bg"] = "exited" /\ now >= 1000 /\ pc["caller"] = "ended"

(* C6: once end() has set the event, the update thread leaves its loop     *)
(* (under fair scheduling of the thread, with no need for time to pass):    *)
(* a wait that finds the event set returns True, and the thread begins at   *)
(* most one more update(inc=0) after the event was set.                     *)
C6_ThreadStopsAfterEnd ==
    /\ _update_event ~> (pc["bg"] \in {"none", "exited"})
    /\ [][(_update_event /\ pc["bg"] = "wait" /\ pc'["bg"] # "wait")
            => pc'["bg"] = "exited"]_vars
    /\ [](starts_after_stop <= 1)

\* the wait timed out, end() set the event, the thread ran one more update
\* and then left
C6_Witness == pc["bg"] = "exited" /\ starts_after_stop = 1

(* C7: _show_jobs is a one-way latch: it turns true only when _active is    *)
(* above 1, start() has set it by the time it calls update, so the line     *)
(* that update writes shows the job count, and it stays true when finish    *)
(* brings _active back to 1, 0 or below.                                    *)
C7_ShowJobsLatch ==
    /\ [][_show_jobs => _show_jobs']_vars
    /\ [][(~_show_jobs /\ _show_jobs') => _active' > 1]_vars
    /\ []((_active > 1 /\ pc["caller"] # "start_show_jobs") => _show_jobs)
    /\ []((wrote = "update" /\ _total > 0 /\ _active > 1
             /\ pc["caller"] # "start_show_jobs")
            => Contains(out, "[" \o ToString(_active) \o " job"))

\* two jobs were started and both have finished: the latch is still set
C7_Witness == _show_jobs /\ _active = 0 /\ pc["caller"] = "idle"

\* the quotient a / b with its fraction dropped (b > 0)
TowardZero(a, b) == IF a < 0 THEN -((-a) \div b) ELSE a \div b

\* the start of the line update writes for a known total, percent field p
PercentLineStart(p) == "\r" \o _title \o ": " \o FmtD(p, 2) \o "% "

\* the start of the line update writes for an unknown total
CounterLineStart == "\r" \o _title \o ": " \o ToString(_done) \o ","

(* C8 (as claimed): for total <= 0 update writes "{title}: {done},"; for   *)
(* total > 0 its percent field is floor(100 * done / total), for every      *)
(* value of done, negative ones included.                                   *)
C8_PercentIsFloor ==
    wrote = "update" =>
        IF _total <= 0 THEN HasPrefix(out, CounterLineStart)
        ELSE HasPrefix(out, PercentLineStart((100 * _done) \div _total))

(* C8 (amended): for total <= 0 update writes "{title}: {done},"; for      *)
(* total > 0 its percent field is 100 * done / total with the fraction      *)
(* dropped (rounded toward zero), which is the floor whenever done >= 0.    *)
C8_PercentTruncates ==
    wrote = "update" =>
        IF _total <= 0 THEN HasPrefix(out, CounterLineStart)
        ELSE /\ HasPrefix(out, PercentLineStart(TowardZero(100 * _done, _total)))
             /\ _done >= 0 =>
                    HasPrefix(out, PercentLineStart((100 * _done) \div _total))

\* update rendered a negative done that total does not divide
C8_Witness ==
    wrote = "update" /\ _total > 0 /\ _done < 0 /\ (100 * _done) % _total # 0

(* C9: every line update writes begins with a carriage return and ends     *)
(* with ESC [ K, and every line end writes begins with a carriage return    *)
(* and ends with ESC [ K and a newline, eliding included.                   *)
C9_LinesFramed ==
    /\ wrote = "update" =>
          HasPrefix(out, "\r") /\ HasSuffix(out, CSI_ERASE_LINE_AFTER)
    /\ wrote = "end" =>
          HasPrefix(out, "\r") /\ HasSuffix(out, CSI_ERASE_LINE_AFTER \o "\n")

(* C10: the job count in a line uses "job" exactly when the count is 1 and *)
(* "jobs" for every other count, 0 and negative counts included.            *)
C10_JobsPluralUnlessOne ==
    (wrote = "update" /\ _total > 0 /\ _show_jobs
       /\ HasSuffix(out, CSI_ERASE_LINE_AFTER))
    => Contains(out, "[" \o ToString(_active)
                     \o (IF _active = 1 THEN " job" ELSE " jobs") \o "] ")

-----------------------------------------------------------------------------
Digits == {"0", "1", "2", "3", "4", "5", "6", "7", "8", "9"}

CharAt(s, i) == SubSeq(s, i, i)

\* s ends with a seconds field: digit "." three digits "s"
EndsWithSecondsField(s) ==
    LET n == Len(s)
    IN /\ n >= 6
       /\ CharAt(s, n) = "s"
       /\ \A i \in {n - 5, n - 3, n - 2, n - 1} : CharAt(s, i) \in Digits
       /\ CharAt(s, n - 4) = "."

(* C11 as stated: duration_str of 0.340 s is "0.340s", of 312 s is         *)
(* "5m12.000s" and of 3602.5 s is "1h0m2.500s", and the seconds field is   *)
(* always present with three decimal digits.                               *)
C11_DurationExamplesAsStated ==
    fn.op = "duration_str" =>
        /\ fn.arg = 340 => fn.res = "0.340s"
        /\ fn.arg = 312000 => fn.res = "5m12.000s"
        /\ fn.arg = 3602500 => fn.res = "1h0m2.500s"
        /\ EndsWithSecondsField(fn.res)

(* C11 amended: duration_str of 0.340 s is "0.340s", of 312 s is           *)
(* "5m12.000s" and of 3602.5 s is "1h2.500s": the hours and the minutes    *)
(* fields are rendered exactly when they are not zero, each on its own,    *)
(* and the seconds field is always present with three decimal digits.      *)
C11_DurationExamples ==
    fn.op = "duration_str" =>
        /\ fn.arg = 340 => fn.res = "0.340s"
        /\ fn.arg = 312000 => fn.res = "5m12.000s"
        /\ fn.arg = 3602500 => fn.res = "1h2.500s"
        /\ EndsWithSecondsField(fn.res)
        /\ Contains(fn.res, "h") <=> fn.arg >= HourMs
        /\ Contains(fn.res, "m") <=> (fn.arg % HourMs) >= MinuteMs

C11_Witness ==
    fn.op = "duration_str" /\ fn.arg = 3602500 /\ fn.res = "1h2.500s"

-----------------------------------------------------------------------------
\* the line s ends with an empty message field and the erase sequence
MessageFieldEmpty(s) ==
    \/ HasSuffix(s, ") " \o CSI_ERASE_LINE_AFTER)
    \/ HasSuffix(s, " | " \o CSI_ERASE_LINE_AFTER)

(* C12: when no message was ever supplied (no start, no finish, every      *)
(* update without msg), the message field of a percentage line composed by *)
(* update is empty; with title "Fetching", total 4, units " objects" and   *)
(* delay=False the fourth update(inc=1) composes                           *)
(* "Fetching: 100% (4 objects/4 objects) " and the erase sequence.         *)
C12_NoMessageRendersEmpty ==
    (wrote = "update" /\ _total > 0 /\ given = None) =>
        /\ MessageFieldEmpty(obs.line)
        /\ (_total = 4 /\ _done = 4 /\ ~_show_elapsed) =>
              obs.line = "Fetching: 100% (4 objects/4 objects) "
                         \o CSI_ERASE_LINE_AFTER

-----------------------------------------------------------------------------
(* C13: with elide=True on a terminal, a line that is, carriage return     *)
(* included, longer than the terminal's column count is written as its     *)
(* first columns-1 characters followed by "..", and a line of at most      *)
(* columns characters is written unchanged; with elide=False no written    *)
(* line is truncated (and nothing at all is written when the stream is not *)
(* a terminal).                                                            *)
C13_ElideTruncates ==
    wrote # "none" =>
        LET s1 == "\r" \o obs.line
            n == obs.cols
        IN /\ _TTY
           /\ IF args.elide
              THEN /\ n \in Cols
                   /\ Len(s1) > n =>
                         /\ Len(out) = n + 1
                         /\ SubSeq(out, 1, n - 1) = SubSeq(s1, 1, n - 1)
                         /\ SubSeq(out, n, n + 1) = ".."
                   /\ Len(s1) <= n => out = s1
              ELSE out = s1

\* a line one character too long for the terminal has been truncated
C13_Witness ==
    /\ wrote = "end"
    /\ args.elide
    /\ Len(obs.line) = obs.cols
    /\ Len(out) = obs.cols + 1
    /\ HasSuffix(out, "..")

-----------------------------------------------------------------------------
\* the caller is between two calls, or in end(), which supplies no message
CallerReturned == pc["caller"] \in {"idle", "end_write", "ended"}

(* C14: _last_msg always holds the message the caller supplied most        *)
(* recently: once the caller's start, finish or update(msg=m) has returned *)
(* _last_msg is that message until the caller's next call with a message,  *)
(* and the thread's update(inc=0), which has no message, never changes it, *)
(* however its steps interleave with the caller's.                         *)
C14_LastMessageIsLastGiven == CallerReturned => _last_msg = given

-----------------------------------------------------------------------------
(* C15: the summary line of end() is the reporter's last output: once end  *)
(* has written it no progress line is written any more, also when the      *)
(* thread was inside update(), or about to call it, when end was called.   *)
C15_SummaryIsLastOutput == summary_written => wrote # "update"

-----------------------------------------------------------------------------
(* C16: between the caller's calls _active is the number of start calls    *)
(* minus the number of finish calls, negative values included; start adds  *)
(* one before its update call and finish subtracts one only after its      *)
(* update call, so that a line composed by finish still counts the job     *)
(* that finishes and a line composed by start already counts the job that  *)
(* starts.                                                                 *)
C16_ActiveIsStartsMinusFinishes ==
    /\ CallerReturned => _active = jobs_net
    /\ op = "start" => _active = jobs_net
    /\ op = "finish" => _active = jobs_net + 1
    /\ (wrote = "update" /\ obs.by = "caller" /\ _total > 0 /\ _show_jobs) =>
          Contains(obs.line,
                   "% [" \o jobs_str(IF op = "finish" THEN jobs_net + 1
                                     ELSE jobs_net) \o "] (")

\* after two starts, finish has composed a line that counts two jobs
C16_Witness ==
    /\ op = "finish"
    /\ wrote = "update"
    /\ obs.by = "caller"
    /\ jobs_net = 1
    /\ Contains(obs.line, "% [2 jobs] (")

-----------------------------------------------------------------------------
(* C17: suppression never affects the counters: update adds inc to _done   *)
(* and stores the resolved message before any suppression check, so after  *)
(* the caller's calls _done and _last_msg are what the calls alone make    *)
(* them (the sum of the increments, the last message given), whether the   *)
(* stream is a terminal or not, tracing is on or not, quiet is set or not  *)
(* and _show is true or false; and a line the caller's update composes,    *)
(* the first one after the delay included, shows that full sum.            *)
C17_CountersIgnoreSuppression ==
    /\ CallerReturned => (_done = sum_inc /\ _last_msg = given)
    /\ (wrote = "update" /\ obs.by = "caller") =>
          Contains(obs.line, IF _total > 0
                             THEN "(" \o ToString(sum_inc) \o _units \o "/"
                             ELSE ": " \o ToString(sum_inc) \o ",")

-----------------------------------------------------------------------------
(* C18: end() never sets _show and does not compare the elapsed time with  *)
(* the 0.5s delay: it writes its summary line if and only if, when it is   *)
(* called, the stream is a terminal, tracing is off and _show is already   *)
(* true; so with delay=True and no update call at or after 0.5s, end()     *)
(* writes nothing even when it is called later than 0.5s after             *)
(* construction.                                                           *)
C18_EndWritesIffShown ==
    [][/\ (pc'["caller"] # pc["caller"]
           /\ pc'["caller"] \in {"end_write", "ended"}) => _show' = _show
       /\ (pc["caller"] = "end_write" /\ pc'["caller"] = "ended") =>
             /\ obs'.asked = "end"
             /\ wrote' = "end" <=> (_TTY /\ ~trace' /\ _show)]_vars

\* end(), called on a terminal 0.5s or more after the construction with
\* delay=True, tracing off and _show still false, has written nothing
C18_Witness ==
    /\ obs.asked = "end"
    /\ wrote = "none"
    /\ args.delay /\ ~args.quiet
    /\ _TTY /\ ~trace
    /\ ~_show
    /\ ncalls >= 1
    /\ HalfSecondElapsed

=============================================================================
